---- MODULE Spec2Model ----
(***************************************************************************)
(* Synapse / Recallhub: the dashboard's user-ID utility                    *)
(* (dashboard/utils/userId.ts), the dashboard's initialisation effect      *)
(* (dashboard/app/page.tsx), the extension's user ID and message types     *)
(* (extension/utils/constants.js, storage utilities) and the extension's   *)
(* background worker (extension/background.js).                            *)
(***************************************************************************)
EXTENDS Integers, Sequences, FiniteSets, TLC

\* ------------------------------------------------------------------ values

\* JavaScript null (localStorage.getItem of a missing key) and undefined
NULL == "<null>"
UNDEF == "<undefined>"

\* JavaScript truthiness of a string-or-null/undefined value
Truthy(v) == v \notin {NULL, UNDEF, ""}

\* userId.ts:6-7
USER_ID_KEY == "ai_mem_user_id"
FALLBACK_KEYS == <<"recallhub_user_id", "synapse_user_id">>

StorageKeys == {USER_ID_KEY} \cup {FALLBACK_KEYS[i] : i \in 1..Len(FALLBACK_KEYS)}

\* constants.js:4, 7-15
USER_ID == "mvp_demo_user_2024"
MESSAGE_TYPES == [GET_USER_ID |-> "SABKI_SOCH_GET_USER_ID",
                  USER_ID_RESPONSE |-> "SABKI_SOCH_USER_ID_RESPONSE"]

\* ------------------------------------------------------------------ bounds

\* window messages posted by scripts other than the dashboard
MaxPosts == 1
\* consecutive getOrCreateUserId calls followed
MaxCalls == 2

\* longest string a message payload carries as text
MaxLen == 2
\* most items saveBulkContent finds on a page
MaxItems == 2

\* values a localStorage key may hold when the page loads
StoreVals == {NULL, "", "a", "demo_user", USER_ID}
\* values crypto.randomUUID() may produce
UUIDs == {"uuid-1", "uuid-2"}
\* arguments of a manual setUserId
ManualIds == {"a", "demo_user"}

VARIABLES
    ls,          \* localStorage: the three user-ID keys
    pc,          \* position of initializeUserId
    localId,     \* syncWithExtension: const localId
    extensionId, \* syncWithExtension: const extensionId (the settled promise)
    settledBy,   \* what settled checkExtensionUserId's promise
    settledType, \* the type of the message that settled it
    late,        \* a qualifying message was dispatched after it was settled
    listening,   \* messageHandler is attached to the window
    timer,       \* the 1000 ms timeout is pending
    msgs,        \* message events queued on the window
    posts,       \* messages posted by other scripts so far
    extActive,   \* the extension's content script is installed in the page
    synced,      \* value syncWithExtension returned
    userId,      \* React state userId of Dashboard
    ls0,         \* localStorage when initializeUserId started
    ret,         \* the last call of a utility function and what it returned
    gocCalls,    \* getOrCreateUserId calls since the last other write
    gocFirst     \* return value and storage of the first of those calls

idVars == <<ls, pc, localId, extensionId, settledBy, settledType, late,
            listening, timer, msgs, posts, extActive, synced, userId, ls0, ret,
            gocCalls, gocFirst>>

\* background worker (one message handled at a time)
VARIABLES
    bgPc,        \* position of the onMessage listener
    bgMsg,       \* the message being handled
    bgReq,       \* the payload sent to the backend /store for this message
    bgResp,      \* the arguments of the sendResponse calls for this message
    bgFetch,     \* how the fetch for this message settled
    bgRuntime,   \* how the browser treats a promise returned by a listener
    bgChannel,   \* the message channel back to the sender
    bgDelivered  \* the responses the sender received for this message

bgVars == <<bgPc, bgMsg, bgReq, bgResp, bgFetch, bgRuntime, bgChannel, bgDelivered>>

\* content script: one call of a smart-save function at a time
VARIABLES
    ssFn,        \* the function called
    ssPc,        \* its position
    ssLeft,      \* saveBulkContent: items of extracted.formatted still to save
    ssLast,      \* how the latest fetch to /api/memory settled
    ssOkCount,   \* fetches of this call answered with an OK status
    ssBadCount,  \* fetches of this call answered otherwise or rejected
    ssResults,   \* saveBulkContent: results.length
    ssErrors,    \* saveBulkContent: errors.length
    ssRet        \* the value the call returned

ssVars == <<ssFn, ssPc, ssLeft, ssLast, ssOkCount, ssBadCount, ssResults,
            ssErrors, ssRet>>

\* dashboard page: its search box and its requests to the backend
VARIABLES
    query,       \* React state query, the characters in the search box
    dbPc,        \* position of the running fetchAllMemories call
    dbUid,       \* userId as the running fetchAllMemories call sees it
    dbReq        \* the request issued last

dbVars == <<query, dbPc, dbUid, dbReq>>

vars == <<idVars, bgVars, ssVars, dbVars>>

\* ------------------------------------------------- userId.ts: pure parts

\* variant: the loop over FALLBACK_KEYS without its break
RECURSIVE ScanFallbackNoBreak(_, _, _)
ScanFallbackNoBreak(store, i, uid) ==
    IF i > Len(FALLBACK_KEYS) THEN uid
    ELSE ScanFallbackNoBreak(store, i + 1, store[FALLBACK_KEYS[i]])

\* userId.ts:20-23, the loop over FALLBACK_KEYS starting at index i with uid
RECURSIVE ScanFallback(_, _, _)
ScanFallback(store, i, uid) ==
    IF i > Len(FALLBACK_KEYS) THEN uid
    ELSE LET u == store[FALLBACK_KEYS[i]]
         IN IF Truthy(u) THEN u ELSE ScanFallback(store, i + 1, u)

\* userId.ts:53-55
SetUserId(store, id) == [store EXCEPT ![USER_ID_KEY] = id]

\* variant: the created UUID is returned but not stored
GetOrCreateNoStore(store, fresh) ==
    LET uid0 == store[USER_ID_KEY]
        uid1 == IF ~Truthy(uid0) THEN ScanFallback(store, 1, uid0) ELSE uid0
    IN IF ~Truthy(uid1)
       THEN [uid |-> fresh, store |-> store, created |-> TRUE]
       ELSE IF ~Truthy(store[USER_ID_KEY])
            THEN [uid |-> uid1, store |-> [store EXCEPT ![USER_ID_KEY] = uid1],
                  created |-> FALSE]
            ELSE [uid |-> uid1, store |-> store, created |-> FALSE]

\* variant: the fixed value demo_user instead of a new UUID
GetOrCreateDemoUser(store, fresh) ==
    LET uid0 == store[USER_ID_KEY]
        uid1 == IF ~Truthy(uid0) THEN ScanFallback(store, 1, uid0) ELSE uid0
    IN IF ~Truthy(uid1)
       THEN [uid |-> "demo_user", store |-> store, created |-> FALSE]
       ELSE IF ~Truthy(store[USER_ID_KEY])
            THEN [uid |-> uid1, store |-> [store EXCEPT ![USER_ID_KEY] = uid1],
                  created |-> FALSE]
            ELSE [uid |-> uid1, store |-> store, created |-> FALSE]

\* variant: an ID found under a fallback key is not copied to the primary key
GetOrCreateNoCopy(store, fresh) ==
    LET uid0 == store[USER_ID_KEY]
        uid1 == IF ~Truthy(uid0) THEN ScanFallback(store, 1, uid0) ELSE uid0
    IN IF ~Truthy(uid1)
       THEN [uid |-> fresh, store |-> [store EXCEPT ![USER_ID_KEY] = fresh],
             created |-> TRUE]
       ELSE [uid |-> uid1, store |-> store, created |-> FALSE]

\* userId.ts:14-38; fresh is what crypto.randomUUID() returns when called
GetOrCreateUserId(store, fresh) ==
    LET uid0 == store[USER_ID_KEY]
        uid1 == IF ~Truthy(uid0) THEN ScanFallback(store, 1, uid0) ELSE uid0
    IN IF ~Truthy(uid1)
       THEN [uid |-> fresh, store |-> [store EXCEPT ![USER_ID_KEY] = fresh],
             created |-> TRUE]
       ELSE IF ~Truthy(store[USER_ID_KEY])
            THEN [uid |-> uid1, store |-> [store EXCEPT ![USER_ID_KEY] = uid1],
                  created |-> FALSE]
            ELSE [uid |-> uid1, store |-> store, created |-> FALSE]

\* variant: the fallback keys read in the other order
GetUserIdSwapped(store) ==
    IF Truthy(store[USER_ID_KEY]) THEN store[USER_ID_KEY]
    ELSE IF Truthy(store[FALLBACK_KEYS[2]]) THEN store[FALLBACK_KEYS[2]]
    ELSE store[FALLBACK_KEYS[1]]

\* userId.ts:43-47: a || b || c
GetUserId(store) ==
    IF Truthy(store[USER_ID_KEY]) THEN store[USER_ID_KEY]
    ELSE IF Truthy(store[FALLBACK_KEYS[1]]) THEN store[FALLBACK_KEYS[1]]
    ELSE store[FALLBACK_KEYS[2]]

\* userId.ts:72: the test of messageHandler
Qualifies(m) == m.type = "USER_ID_RESPONSE" \/ Truthy(m.userId)

\* userId.ts:74: event.data.userId || null
ResolvedValue(m) == IF Truthy(m.userId) THEN m.userId ELSE NULL

\* userId.ts:81: the request checkExtensionUserId posts
DashboardRequest == [type |-> "GET_USER_ID", userId |-> UNDEF]

\* variant: the extension's ID is taken only when there is no local ID
SyncOnlyWhenNoLocal(store, lid, eid) ==
    IF Truthy(eid) /\ ~Truthy(lid)
    THEN [store |-> SetUserId(store, eid), result |-> TRUE]
    ELSE [store |-> store, result |-> FALSE]

\* variant: the extension's ID is stored over a missing local ID but the
\* function still returns false
SyncFalseWhenNoLocal(store, lid, eid) ==
    IF Truthy(eid) /\ Truthy(lid) /\ eid # lid
    THEN [store |-> SetUserId(store, eid), result |-> TRUE]
    ELSE IF Truthy(eid) /\ ~Truthy(lid)
    THEN [store |-> SetUserId(store, eid), result |-> FALSE]
    ELSE [store |-> store, result |-> FALSE]

\* userId.ts:99-114: syncWithExtension after the await
SyncWithExtension(store, lid, eid) ==
    IF Truthy(eid) /\ Truthy(lid) /\ eid # lid
    THEN [store |-> SetUserId(store, eid), result |-> TRUE]
    ELSE IF Truthy(eid) /\ ~Truthy(lid)
    THEN [store |-> SetUserId(store, eid), result |-> TRUE]
    ELSE [store |-> store, result |-> FALSE]

\* ------------------------------------------------- extension (content side)

\* storage utilities: getOrCreateUserId resolves with the constant USER_ID
ExtGetOrCreateUserId == USER_ID

\* the content script's window listener: a request of type
\* MESSAGE_TYPES.GET_USER_ID is answered with MESSAGE_TYPES.USER_ID_RESPONSE
ExtRecognizes(m) == m.type = MESSAGE_TYPES.GET_USER_ID
ExtReply == [type |-> MESSAGE_TYPES.USER_ID_RESPONSE, userId |-> ExtGetOrCreateUserId]

\* messages other scripts of the page may post on the window
EnvMsgs ==
    { [type |-> "USER_ID_RESPONSE", userId |-> "a"],
      [type |-> "USER_ID_RESPONSE", userId |-> UNDEF],
      [type |-> "OTHER", userId |-> "a"],
      [type |-> MESSAGE_TYPES.GET_USER_ID, userId |-> UNDEF] }

NoRet == [fn |-> "none", val |-> NULL, created |-> FALSE,
          pre |-> [k \in StorageKeys |-> NULL]]

\* ------------------------------------------------- dashboard: state machine

IdInit ==
    /\ ls \in [StorageKeys -> StoreVals]
    /\ pc = "init"
    /\ localId = NULL
    /\ extensionId = UNDEF
    /\ settledBy = "none"
    /\ settledType = UNDEF
    /\ late = FALSE
    /\ listening = FALSE
    /\ timer = FALSE
    /\ msgs = <<>>
    /\ posts = 0
    /\ extActive \in BOOLEAN
    /\ synced = FALSE
    /\ userId = ""
    /\ ls0 = ls
    /\ ret = NoRet
    /\ gocCalls = 0
    /\ gocFirst = [val |-> NULL, store |-> ls]

\* a promise continuation (microtask) of initializeUserId is ready to run;
\* it runs before any other task
MicrotaskPending == pc \in {"resolved", "synced"}

\* bookkeeping of consecutive getOrCreateUserId calls
CountCall(r) ==
    /\ gocCalls' = IF gocCalls < MaxCalls THEN gocCalls + 1 ELSE gocCalls
    /\ gocFirst' = IF gocCalls = 0 THEN [val |-> r.uid, store |-> r.store]
                    ELSE gocFirst

\* page.tsx:45-48, userId.ts:96-97, 64-87: initializeUserId up to the await
\* inside syncWithExtension: getUserId, addEventListener, postMessage,
\* setTimeout (the effect runs in the browser, where window is defined)
StartInit ==
    /\ pc = "init"
    /\ localId' = GetUserId(ls)
    /\ listening' = TRUE
    /\ msgs' = Append(msgs, DashboardRequest)
    /\ timer' = TRUE
    /\ pc' = "waiting"
    /\ ls0' = ls
    /\ UNCHANGED <<ls, extensionId, settledBy, settledType, late, posts, extActive, synced, userId,
                   ret, gocCalls, gocFirst>>
    /\ UNCHANGED <<bgVars, ssVars, dbVars>>

\* the window dispatches the oldest queued message event to its listeners:
\* messageHandler (userId.ts:71-76) and the extension's content script
Deliver ==
    /\ msgs # <<>>
    /\ ~MicrotaskPending
    /\ LET m == Head(msgs)
           rest == IF extActive /\ ExtRecognizes(m)
                   THEN Append(Tail(msgs), ExtReply) ELSE Tail(msgs)
       IN /\ msgs' = rest
          /\ IF listening /\ Qualifies(m)
             THEN /\ listening' = FALSE
                  /\ IF settledBy = "none"
                     THEN /\ extensionId' = ResolvedValue(m)
                          /\ settledBy' = "message"
                          /\ settledType' = m.type
                          /\ pc' = "resolved"
                     ELSE UNCHANGED <<extensionId, settledBy, settledType, pc>>
             ELSE UNCHANGED <<listening, extensionId, settledBy, settledType, pc>>
          /\ late' = (late \/ (settledBy # "none" /\ Qualifies(m)))
    /\ UNCHANGED <<ls, localId, timer, posts, extActive, synced, userId, ls0,
                   ret, gocCalls, gocFirst>>
    /\ UNCHANGED <<bgVars, ssVars, dbVars>>

\* variant: the timeout removes the listener but does not resolve
TimeoutOnlyRemoves ==
    /\ timer
    /\ msgs = <<>>
    /\ ~MicrotaskPending
    /\ timer' = FALSE
    /\ listening' = FALSE
    /\ UNCHANGED <<extensionId, settledBy, settledType, late, pc>>
    /\ UNCHANGED <<ls, localId, msgs, posts, extActive, synced, userId, ls0,
                   ret, gocCalls, gocFirst>>
    /\ UNCHANGED <<bgVars, ssVars, dbVars>>

\* variant: the timeout resolves but leaves the listener attached
TimeoutKeepsListener ==
    /\ timer
    /\ msgs = <<>>
    /\ ~MicrotaskPending
    /\ timer' = FALSE
    /\ IF settledBy = "none"
       THEN /\ extensionId' = NULL
            /\ settledBy' = "timeout"
            /\ pc' = "resolved"
       ELSE UNCHANGED <<extensionId, settledBy, pc>>
    /\ UNCHANGED <<settledType, late, listening>>
    /\ UNCHANGED <<ls, localId, msgs, posts, extActive, synced, userId, ls0,
                   ret, gocCalls, gocFirst>>
    /\ UNCHANGED <<bgVars, ssVars, dbVars>>

\* userId.ts:84-87: the timeout callback; message events queued before the
\* second has passed are dispatched first
Timeout ==
    /\ timer
    /\ msgs = <<>>
    /\ ~MicrotaskPending
    /\ timer' = FALSE
    /\ listening' = FALSE
    /\ IF settledBy = "none"
       THEN /\ extensionId' = NULL
            /\ settledBy' = "timeout"
            /\ pc' = "resolved"
       ELSE UNCHANGED <<extensionId, settledBy, pc>>
    /\ UNCHANGED <<settledType, late>>
    /\ UNCHANGED <<ls, localId, msgs, posts, extActive, synced, userId, ls0,
                   ret, gocCalls, gocFirst>>
    /\ UNCHANGED <<bgVars, ssVars, dbVars>>

\* userId.ts:99-114: syncWithExtension resumes with the settled extensionId
SyncContinue ==
    /\ pc = "resolved"
    /\ LET r == SyncWithExtension(ls, localId, extensionId)
       IN /\ ls' = r.store
          /\ synced' = r.result
    /\ pc' = "synced"
    /\ UNCHANGED <<localId, extensionId, settledBy, settledType, late, listening, timer, msgs,
                   posts, extActive, userId, ls0, ret, gocCalls, gocFirst>>
    /\ UNCHANGED <<bgVars, ssVars, dbVars>>

\* page.tsx:51-53: getOrCreateUserId and setUserId(uid)
FinishInit ==
    /\ pc = "synced"
    /\ \E fresh \in UUIDs :
         LET r == GetOrCreateUserId(ls, fresh)
         IN /\ ls' = r.store
            /\ userId' = r.uid
    /\ pc' = "done"
    /\ UNCHANGED <<localId, extensionId, settledBy, settledType, late, listening, timer, msgs,
                   posts, extActive, synced, ls0, ret, gocCalls, gocFirst>>
    /\ UNCHANGED <<bgVars, ssVars, dbVars>>

\* another script of the page posts a message on the window
PagePost ==
    /\ posts < MaxPosts
    /\ ~MicrotaskPending
    /\ \E m \in EnvMsgs : msgs' = Append(msgs, m)
    /\ posts' = posts + 1
    /\ UNCHANGED <<ls, pc, localId, extensionId, settledBy, settledType, late, listening, timer,
                   extActive, synced, userId, ls0, ret, gocCalls, gocFirst>>
    /\ UNCHANGED <<bgVars, ssVars, dbVars>>

\* the exported utility functions applied to any contents of localStorage
CallGetOrCreateUserId ==
    /\ gocCalls < MaxCalls
    /\ \E fresh \in UUIDs :
         LET r == GetOrCreateUserId(ls, fresh)
         IN /\ ls' = r.store
            /\ ret' = [fn |-> "getOrCreateUserId", val |-> r.uid,
                       created |-> r.created, pre |-> ls]
            /\ CountCall(r)
    /\ UNCHANGED <<pc, localId, extensionId, settledBy, settledType, late, listening, timer, msgs,
                   posts, extActive, synced, userId, ls0>>
    /\ UNCHANGED <<bgVars, ssVars, dbVars>>

CallGetUserId ==
    /\ ret' = [fn |-> "getUserId", val |-> GetUserId(ls), created |-> FALSE,
               pre |-> ls]
    /\ UNCHANGED <<ls, pc, localId, extensionId, settledBy, settledType, late, listening, timer,
                   msgs, posts, extActive, synced, userId, ls0, gocCalls,
                   gocFirst>>
    /\ UNCHANGED <<bgVars, ssVars, dbVars>>

CallSetUserId ==
    /\ \E id \in ManualIds :
         /\ ls' = SetUserId(ls, id)
         /\ ret' = [fn |-> "setUserId", val |-> UNDEF, created |-> FALSE,
                    pre |-> ls]
    /\ gocCalls' = 0
    /\ UNCHANGED <<pc, localId, extensionId, settledBy, settledType, late, listening, timer, msgs,
                   posts, extActive, synced, userId, ls0, gocFirst>>
    /\ UNCHANGED <<bgVars, ssVars, dbVars>>

\* ------------------------------------------------- background.js: values

\* strings are sequences of characters
Whitespace == {" ", "\t", "\n"}
Chars == {" ", "a"}
Strings == UNION {[1..n -> Chars] : n \in 0..MaxLen}

\* a JavaScript value: its kind k and, by kind, its characters str, its
\* number n, its truth value b or its set of fields f
Val(k, str, n, b, f) == [k |-> k, str |-> str, n |-> n, b |-> b, f |-> f]
Undefined == Val("undefined", <<>>, 0, FALSE, {})
Null == Val("null", <<>>, 0, FALSE, {})
EmptyArray == Val("array", <<>>, 0, FALSE, {})
StrVal(str) == Val("string", str, 0, FALSE, {})
NumVal(n) == Val("number", <<>>, n, FALSE, {})
BoolVal(b) == Val("boolean", <<>>, 0, b, {})
ObjVal(f) == Val("object", <<>>, 0, FALSE, f)
ObjKeyOrder == <<"total", "by_type", "items", "count", "title">>
ObjKeys == {ObjKeyOrder[i] : i \in 1..Len(ObjKeyOrder)}
KeyChars == [total |-> <<"t", "o", "t", "a", "l">>,
             by_type |-> <<"b", "y", "_", "t", "y", "p", "e">>,
             items |-> <<"i", "t", "e", "m", "s">>,
             count |-> <<"c", "o", "u", "n", "t">>,
             title |-> <<"t", "i", "t", "l", "e">>]

\* what payload.text may be: undefined, null, a string, a number, a boolean,
\* an object given by its set of fields (each holding 1), or the empty array
TextVals ==
    {Undefined, Null, EmptyArray}
    \cup {StrVal(str) : str \in Strings}
    \cup {NumVal(n) : n \in {0, 7}}
    \cup {BoolVal(b) : b \in BOOLEAN}
    \cup {ObjVal(ks) : ks \in SUBSET ObjKeys}

\* msg.payload: undefined, or an object with a text field
NoPayload == [present |-> FALSE, text |-> Undefined]
Payloads == {NoPayload} \cup {[present |-> TRUE, text |-> t] : t \in TextVals}

BgMsgs == [type : {"ACTION_RESPONSE", UNDEF},
           action : {"page_api_data", "other"},
           payload : Payloads]

\* typeof
Typeof(x) ==
    IF x.k \in {"null", "object", "array"} THEN "object" ELSE x.k

\* JavaScript truthiness of a value
JsTruthy(x) ==
    CASE x.k \in {"undefined", "null"} -> FALSE
      [] x.k = "string" -> x.str # <<>>
      [] x.k = "number" -> x.n # 0
      [] x.k = "boolean" -> x.b
      [] OTHER -> TRUE

\* String.prototype.trim
RECURSIVE TrimLeft(_)
TrimLeft(str) ==
    IF str # <<>> /\ Head(str) \in Whitespace THEN TrimLeft(Tail(str)) ELSE str
RECURSIVE TrimRight(_)
TrimRight(str) ==
    IF str # <<>> /\ str[Len(str)] \in Whitespace
    THEN TrimRight(SubSeq(str, 1, Len(str) - 1)) ELSE str
Trim(str) == TrimRight(TrimLeft(str))

\* JSON.stringify of an object with the given fields, or of the empty array
RECURSIVE StringifyFields(_, _, _)
StringifyFields(ks, i, first) ==
    IF i > Len(ObjKeyOrder) THEN <<>>
    ELSE IF ObjKeyOrder[i] \in ks
         THEN (IF first THEN <<>> ELSE <<",">>)
              \o <<"\"">> \o KeyChars[ObjKeyOrder[i]] \o <<"\"", ":", "1">>
              \o StringifyFields(ks, i + 1, FALSE)
         ELSE StringifyFields(ks, i + 1, first)
JsonStringify(x) ==
    IF x.k = "array" THEN <<"[", "]">>
    ELSE <<"{">> \o StringifyFields(x.f, 1, TRUE) \o <<"}">>

\* String(x) of a number or a boolean
JsString(x) ==
    CASE x.k = "number" -> IF x.n = 0 THEN <<"0">> ELSE <<"7">>
      [] x.k = "boolean" -> IF x.b THEN <<"t", "r", "u", "e">>
                            ELSE <<"f", "a", "l", "s", "e">>
      [] OTHER -> x.str

\* background.js:18-19
LooksLikeApiResponse(x) ==
    x.k = "object" /\ x.f \cap {"total", "by_type", "items", "count"} # {}

\* variant: the text is not trimmed before the test
IsBlankNoTrim(str) == str = <<>>

\* background.js:31: !payload.text || !payload.text.trim()
IsBlank(str) == str = <<>> \/ Trim(str) = <<>>

\* background.js:25-28: the text as a string
Normalize(x) ==
    IF Typeof(x) = "object" THEN StrVal(JsonStringify(x))
    ELSE IF Typeof(x) # "string"
         THEN StrVal(JsString(IF JsTruthy(x) THEN x ELSE StrVal(<<>>)))
         ELSE x

\* variant: the API-response test is missing
ValidateNoApiTest(payload) ==
    IF payload.present /\ JsTruthy(payload.text)
    THEN LET t == Normalize(payload.text)
         IN IF IsBlank(t.str)
            THEN [send |-> FALSE, message |-> "No content to store",
                  payload |-> payload]
            ELSE [send |-> TRUE, message |-> "",
                  payload |-> [payload EXCEPT !.text = t]]
    ELSE [send |-> FALSE, message |-> "Missing text field in payload",
          payload |-> payload]

\* background.js:12-38: the validation of msg.payload
Validate(payload) ==
    IF payload.present /\ JsTruthy(payload.text)
    THEN IF Typeof(payload.text) = "object" /\ LooksLikeApiResponse(payload.text)
         THEN [send |-> FALSE, message |-> "Cannot store API response data",
               payload |-> payload]
         ELSE LET t == Normalize(payload.text)
              IN IF IsBlank(t.str)
                 THEN [send |-> FALSE, message |-> "No content to store",
                       payload |-> payload]
                 ELSE [send |-> TRUE, message |-> "",
                       payload |-> [payload EXCEPT !.text = t]]
    ELSE [send |-> FALSE, message |-> "Missing text field in payload",
          payload |-> payload]

\* ------------------------------------------------- background.js: listener

NoMsg == [type |-> UNDEF, action |-> UNDEF, payload |-> NoPayload]

\* background.js:1: an async listener hands the runtime a promise, whatever
\* its return statements say
ListenerResult == "promise"

\* chrome.runtime.onMessage: the channel outlives the listener's return when
\* the listener returned the literal true; a runtime that understands
\* promises also keeps it open until the returned promise settles
Runtimes == {"true-only", "promise-aware"}
KeepsChannelOpen(result, runtime) ==
    result = "true" \/ (result = "promise" /\ runtime = "promise-aware")

BgIdle ==
    /\ bgPc = "idle"
    /\ bgMsg = NoMsg
    /\ bgReq = <<>>
    /\ bgResp = <<>>
    /\ bgFetch = "none"
    /\ bgChannel = "none"
    /\ bgDelivered = <<>>

\* sendResponse called after an await: it reaches the sender only through a
\* channel that is still open
SendLater(resp) ==
    /\ bgResp' = Append(bgResp, resp)
    /\ bgDelivered' = IF bgChannel = "open" THEN Append(bgDelivered, resp)
                       ELSE bgDelivered
    /\ bgChannel' = "closed"

\* background.js:1-47: the listener runs up to its first await
BgReceive ==
    /\ bgPc = "idle"
    /\ \E msg \in BgMsgs :
         /\ bgMsg' = msg
         /\ IF msg.type = "ACTION_RESPONSE"
            THEN bgReq' = <<>> /\ bgResp' = <<>> /\ bgPc' = "idle"
            ELSE IF msg.action = "page_api_data"
            THEN LET r == Validate(msg.payload)
                 IN IF r.send
                    THEN /\ bgReq' = <<r.payload>>
                         /\ bgResp' = <<>>
                         /\ bgPc' = "awaitFetch"
                    ELSE /\ bgReq' = <<>>
                         /\ bgResp' = <<[ok |-> FALSE, message |-> r.message]>>
                         /\ bgPc' = "idle"
            ELSE bgReq' = <<>> /\ bgResp' = <<>> /\ bgPc' = "idle"
    /\ bgDelivered' = bgResp'
    /\ bgChannel' = IF bgPc' = "awaitFetch"
                        /\ KeepsChannelOpen(ListenerResult, bgRuntime)
                     THEN "open" ELSE "closed"
    /\ bgFetch' = "none"
    /\ UNCHANGED bgRuntime
    /\ UNCHANGED <<idVars, ssVars, dbVars>>

\* variant: a rejected fetch is not caught, so nothing is sent back
BgFetchSettlesNoCatch ==
    /\ bgPc = "awaitFetch"
    /\ \E outcome \in {"ok", "status", "throw"} :
         /\ bgFetch' = outcome
         /\ IF outcome = "ok"
            THEN /\ SendLater([ok |-> TRUE, message |-> "Page API data stored"])
                 /\ bgPc' = "idle"
            ELSE IF outcome = "throw"
            THEN /\ UNCHANGED <<bgResp, bgChannel, bgDelivered>>
                 /\ bgPc' = "idle"
            ELSE /\ UNCHANGED <<bgResp, bgChannel, bgDelivered>>
                 /\ bgPc' = "awaitText"
    /\ UNCHANGED <<bgMsg, bgReq, bgRuntime>>
    /\ UNCHANGED <<idVars, ssVars, dbVars>>

\* background.js:41-61: the fetch settles: an OK response, another status,
\* or a rejection
BgFetchSettles ==
    /\ bgPc = "awaitFetch"
    /\ \E outcome \in {"ok", "status", "throw"} :
         /\ bgFetch' = outcome
         /\ IF outcome = "ok"
            THEN /\ SendLater([ok |-> TRUE, message |-> "Page API data stored"])
                 /\ bgPc' = "idle"
            ELSE IF outcome = "throw"
            THEN /\ SendLater([ok |-> FALSE, message |-> "Error"])
                 /\ bgPc' = "idle"
            ELSE /\ UNCHANGED <<bgResp, bgChannel, bgDelivered>>
                 /\ bgPc' = "awaitText"
    /\ UNCHANGED <<bgMsg, bgReq, bgRuntime>>
    /\ UNCHANGED <<idVars, ssVars, dbVars>>

\* background.js:50-53, 58-61: res.text() settles
BgTextSettles ==
    /\ bgPc = "awaitText"
    /\ \E outcome \in {"text", "throw"} :
         SendLater([ok |-> FALSE,
                    message |-> IF outcome = "text" THEN "Failed to store"
                                ELSE "Error"])
    /\ bgPc' = "idle"
    /\ UNCHANGED <<bgMsg, bgReq, bgRuntime, bgFetch>>
    /\ UNCHANGED <<idVars, ssVars, dbVars>>

\* ------------------------------------------------- smart-save.js

NoSaveRet == [set |-> FALSE, success |-> FALSE, saved_count |-> 0,
              failed_count |-> 0]
SaveRet(success, saved, failed) ==
    [set |-> TRUE, success |-> success, saved_count |-> saved,
     failed_count |-> failed]

SsIdle ==
    /\ ssFn = "none"
    /\ ssPc = "idle"
    /\ ssLeft = 0
    /\ ssLast = "none"
    /\ ssOkCount = 0
    /\ ssBadCount = 0
    /\ ssResults = 0
    /\ ssErrors = 0
    /\ ssRet = NoSaveRet

\* variant: the response status is not looked at
NoteResultAnyStatus(outcome) == SaveRet(outcome # "throw", 0, 0)

\* smart-save.js:218-231: savePageAsNote once its fetch has settled
NoteResult(outcome) == SaveRet(outcome = "ok", 0, 0)

\* smart-save.js:121-138: saveSingleContent once response.json() has settled
SingleResult(outcome, parsed) == SaveRet(outcome = "ok" /\ parsed, 0, 0)

\* smart-save.js:57-66: one item of saveBulkContent is pushed to results
ItemSaved(outcome, parsed) == outcome = "ok" /\ parsed

\* smart-save.js:70-77: the summary saveBulkContent returns
BulkSummary(results, errors) == SaveRet(results > 0, results, errors)

\* smart-save.js:30-55, 90-119, 196-216: a save function is called and runs
\* to its first await: nothing to save (or the extractor throws) and it
\* returns success:false, or the first fetch is issued
SsCall ==
    /\ ssPc = "idle"
    /\ \E fn \in {"single", "note", "bulk"}, n \in 0..MaxItems :
         /\ fn # "bulk" => n <= 1
         /\ fn = "note" => n = 1
         /\ ssFn' = fn
         /\ ssLeft' = n
         /\ IF n = 0
            THEN ssPc' = "idle" /\ ssRet' = SaveRet(FALSE, 0, 0)
            ELSE ssPc' = "fetch" /\ ssRet' = NoSaveRet
    /\ ssLast' = "none"
    /\ ssOkCount' = 0
    /\ ssBadCount' = 0
    /\ ssResults' = 0
    /\ ssErrors' = 0
    /\ UNCHANGED <<idVars, bgVars, dbVars>>

\* saveBulkContent: the loop goes on to the next item or the summary is
\* returned (smart-save.js:45, 70-77)
BulkAdvance(results, errors) ==
    /\ ssResults' = results
    /\ ssErrors' = errors
    /\ ssLeft' = ssLeft - 1
    /\ IF ssLeft = 1
       THEN ssPc' = "idle" /\ ssRet' = BulkSummary(results, errors)
       ELSE ssPc' = "fetch" /\ ssRet' = ssRet

\* the fetch to /api/memory settles: an OK response, another status, or a
\* rejection (smart-save.js:50-66, 114-124, 211-220)
SsFetchSettles ==
    /\ ssPc = "fetch"
    /\ \E outcome \in {"ok", "status", "throw"} :
         /\ ssLast' = outcome
         /\ ssOkCount' = IF outcome = "ok" THEN ssOkCount + 1 ELSE ssOkCount
         /\ ssBadCount' = IF outcome = "ok" THEN ssBadCount ELSE ssBadCount + 1
         /\ IF ssFn = "note"
            THEN /\ ssRet' = NoteResult(outcome)
                 /\ ssPc' = "idle"
                 /\ UNCHANGED <<ssLeft, ssResults, ssErrors>>
            ELSE IF outcome # "throw"
            THEN /\ ssPc' = "json"
                 /\ UNCHANGED <<ssLeft, ssResults, ssErrors, ssRet>>
            ELSE IF ssFn = "single"
            THEN /\ ssRet' = SingleResult(outcome, FALSE)
                 /\ ssPc' = "idle"
                 /\ UNCHANGED <<ssLeft, ssResults, ssErrors>>
            ELSE BulkAdvance(ssResults, ssErrors + 1)
    /\ UNCHANGED ssFn
    /\ UNCHANGED <<idVars, bgVars, dbVars>>

\* response.json() settles, for an OK response or an error response
\* (smart-save.js:58-62, 122-126)
SsJsonSettles ==
    /\ ssPc = "json"
    /\ \E parsed \in BOOLEAN :
         IF ssFn = "single"
         THEN /\ ssRet' = SingleResult(ssLast, parsed)
              /\ ssPc' = "idle"
              /\ UNCHANGED <<ssLeft, ssResults, ssErrors>>
         ELSE IF ItemSaved(ssLast, parsed)
              THEN BulkAdvance(ssResults + 1, ssErrors)
              ELSE BulkAdvance(ssResults, ssErrors + 1)
    /\ UNCHANGED <<ssFn, ssLast, ssOkCount, ssBadCount>>
    /\ UNCHANGED <<idVars, bgVars, dbVars>>

\* ------------------------------------------------- dashboard page.tsx

NoReq == [endpoint |-> "none", user_id |-> "", query |-> <<>>]
Request(endpoint, uid, q) == [endpoint |-> endpoint, user_id |-> uid, query |-> q]
SearchEndpoints == {"/api/search", "/api/search/nl"}

DbIdle ==
    /\ query = <<>>
    /\ dbPc = "idle"
    /\ dbUid = ""
    /\ dbReq = NoReq

\* variant: the query is tested without trimming it
SearchAllowedNoTrim(q, uid) == ~(q = <<>> \/ ~Truthy(uid))

\* page.tsx:139: handleSearch goes on past  if (!query.trim() || !userId) return
SearchAllowed(q, uid) == ~(Trim(q) = <<>> \/ ~Truthy(uid))

\* page.tsx:242-244, 327: the search box, the clear button or an example sets
\* the query
SetQuery ==
    /\ \E q \in Strings : query' = q
    /\ UNCHANGED <<dbPc, dbUid, dbReq>>
    /\ UNCHANGED <<idVars, bgVars, ssVars>>

\* page.tsx:60-68: fetchAllMemories, called by the userId effect
\* (page.tsx:132-136) or the refresh button (page.tsx:210), up to its first
\* await: it returns when userId is empty, otherwise it requests /get_all
FetchAllMemories ==
    /\ dbPc = "idle"
    /\ IF ~Truthy(userId)
       THEN UNCHANGED <<dbPc, dbUid, dbReq>>
       ELSE /\ dbUid' = userId
            /\ dbReq' = Request("/get_all", userId, <<>>)
            /\ dbPc' = "getAll"
    /\ UNCHANGED query
    /\ UNCHANGED <<idVars, bgVars, ssVars>>

\* page.tsx:68-119: the /get_all fetch settles; a response of any status is
\* followed by the /api/stats request, a rejection ends the call in catch
GetAllSettles ==
    /\ dbPc = "getAll"
    /\ \E outcome \in {"ok", "status", "throw"} :
         IF outcome = "throw"
         THEN dbPc' = "idle" /\ UNCHANGED dbReq
         ELSE /\ dbReq' = Request("/api/stats", dbUid, <<>>)
              /\ dbPc' = "stats"
    /\ UNCHANGED <<query, dbUid>>
    /\ UNCHANGED <<idVars, bgVars, ssVars>>

\* page.tsx:119-128: the /api/stats fetch settles and the call ends
StatsSettles ==
    /\ dbPc = "stats"
    /\ dbPc' = "idle"
    /\ UNCHANGED <<query, dbUid, dbReq>>
    /\ UNCHANGED <<idVars, bgVars, ssVars>>

\* page.tsx:138-156: handleSearch, called by Enter, the Search button or the
\* NL button, up to its fetch
HandleSearch ==
    /\ \E useNaturalLanguage \in BOOLEAN :
         IF SearchAllowed(query, userId)
         THEN dbReq' = Request(IF useNaturalLanguage THEN "/api/search/nl"
                                                    ELSE "/api/search",
                               userId, query)
         ELSE UNCHANGED dbReq
    /\ UNCHANGED <<query, dbPc, dbUid>>
    /\ UNCHANGED <<idVars, bgVars, ssVars>>

\* the page side at rest while the background worker is examined
IdAtRest ==
    /\ IdInit
    /\ ls = [k \in StorageKeys |-> NULL]
    /\ extActive = TRUE

BgInit == IdAtRest /\ BgIdle /\ bgRuntime \in Runtimes /\ SsIdle /\ DbIdle

BgNext ==
    \/ BgReceive
    \/ BgFetchSettles
    \/ BgTextSettles

BgSpec == BgInit /\ [][BgNext]_vars

\* the background worker at rest while the page side is examined
BgAtRest == BgIdle /\ bgRuntime = "true-only"

\* everything that stores content: the background worker and the content
\* script's save functions
SaveInit == IdAtRest /\ BgAtRest /\ SsIdle /\ DbIdle

SaveNext ==
    \/ BgReceive
    \/ BgFetchSettles
    \/ BgTextSettles
    \/ SsCall
    \/ SsFetchSettles
    \/ SsJsonSettles

SaveSpec == SaveInit /\ [][SaveNext]_vars

Init == IdInit /\ BgAtRest /\ SsIdle /\ DbIdle

Next ==
    \/ StartInit
    \/ Deliver
    \/ Timeout
    \/ SyncContinue
    \/ FinishInit
    \/ PagePost

Spec == Init /\ [][Next]_vars

\* the utility functions on their own
UtilInit == IdInit /\ extActive = FALSE /\ BgAtRest /\ SsIdle /\ DbIdle

UtilNext ==
    \/ CallGetOrCreateUserId
    \/ CallGetUserId
    \/ CallSetUserId

UtilSpec == UtilInit /\ [][UtilNext]_vars

\* the event loop runs every ready callback: the mount effect, queued message
\* events, the expired timer and promise continuations
\* the dashboard from mount on: initialization of the user ID, the search
\* box and the requests to the backend; only the primary key may be stored
DashInit ==
    /\ IdInit
    /\ \A i \in 1..Len(FALLBACK_KEYS) : ls[FALLBACK_KEYS[i]] = NULL
    /\ BgAtRest
    /\ SsIdle
    /\ DbIdle

DashNext ==
    \/ StartInit
    \/ Deliver
    \/ Timeout
    \/ SyncContinue
    \/ FinishInit
    \/ SetQuery
    \/ FetchAllMemories
    \/ GetAllSettles
    \/ StatsSettles
    \/ HandleSearch

DashSpec == DashInit /\ [][DashNext]_vars

FairSpec ==
    /\ Spec
    /\ WF_vars(StartInit)
    /\ WF_vars(Deliver)
    /\ WF_vars(Timeout)
    /\ WF_vars(SyncContinue)
    /\ WF_vars(FinishInit)

\* ------------------------------------------------------------ properties

\* the keys in the documented order
KeyOrder == <<"ai_mem_user_id", "recallhub_user_id", "synapse_user_id">>
NonEmptyAt(store) == {i \in 1..Len(KeyOrder) : store[KeyOrder[i]] \notin {NULL, ""}}
FirstNonEmpty(store) ==
    store[KeyOrder[CHOOSE i \in NonEmptyAt(store) :
                     \A j \in NonEmptyAt(store) : i <= j]]

\* C1: getOrCreateUserId returns the first non-empty value stored under
\* ai_mem_user_id, recallhub_user_id, synapse_user_id, in that order, and
\* creates a new UUID only when none of the three holds a non-empty value
C1_FirstNonEmptyInOrder ==
    ret.fn = "getOrCreateUserId" =>
        /\ NonEmptyAt(ret.pre) # {} =>
              ret.val = FirstNonEmpty(ret.pre) /\ ~ret.created
        /\ ret.created => NonEmptyAt(ret.pre) = {} /\ ret.val \in UUIDs

C1_Witness ==
    /\ ret.fn = "getOrCreateUserId"
    /\ NonEmptyAt(ret.pre) = {2, 3}
    /\ ret.pre[KeyOrder[2]] # ret.pre[KeyOrder[3]]
    /\ ret.val = ret.pre[KeyOrder[2]]

\* C2: with the extension active, once initializeUserId has finished the
\* dashboard's userId is the ID the extension's getOrCreateUserId resolves to
C2_SameIdAsExtension ==
    (extActive /\ pc = "done") => userId = ExtGetOrCreateUserId

\* C3: every getOrCreateUserId call after the first returns what the first
\* returned and leaves localStorage as the first left it, as long as nothing
\* else writes the keys in between
C3_StableId ==
    gocCalls >= 1 =>
        /\ ls = gocFirst.store
        /\ ret.fn = "getOrCreateUserId" => ret.val = gocFirst.val

C3_Witness ==
    /\ gocCalls >= 2
    /\ ret.fn = "getOrCreateUserId"
    /\ gocFirst.val \in UUIDs
    /\ ret.val = gocFirst.val

\* C4: when checkExtensionUserId yields a non-empty ID E, getUserId() returns
\* E once syncWithExtension has completed, and the getOrCreateUserId call of
\* initializeUserId returns E
C4_ExtensionIdWins ==
    Truthy(extensionId) =>
        /\ pc = "synced" => GetUserId(ls) = extensionId
        /\ pc = "done" => userId = extensionId

C4_Witness ==
    /\ pc = "done"
    /\ Truthy(extensionId)
    /\ Truthy(localId)
    /\ localId # extensionId
    /\ \A k \in StorageKeys : Truthy(ls0[k]) /\ ls0[k] # extensionId
    /\ userId = extensionId

\* text that is missing or falsy, an API response, or whitespace only
TextMissing(m) ==
    \/ ~m.payload.present
    \/ m.payload.text.k \in {"undefined", "null"}
    \/ m.payload.text.k = "string" /\ Len(m.payload.text.str) = 0
    \/ m.payload.text.k = "number" /\ m.payload.text.n = 0
    \/ m.payload.text.k = "boolean" /\ m.payload.text.b = FALSE
TextApiResponse(m) ==
    /\ m.payload.present
    /\ m.payload.text.k = "object"
    /\ \E f \in {"total", "by_type", "items", "count"} : f \in m.payload.text.f
TextWhitespaceOnly(m) ==
    /\ m.payload.present
    /\ m.payload.text.k = "string"
    /\ Len(m.payload.text.str) > 0
    /\ \A i \in 1..Len(m.payload.text.str) : m.payload.text.str[i] \in Whitespace
Refused(why) == bgReq = <<>> /\ bgResp = <<[ok |-> FALSE, message |-> why]>>

\* C5: every payload sent to /store has a text that is a string with at
\* least one non-whitespace character
C5_StoredTextNotBlank ==
    bgReq # <<>> =>
        /\ bgReq[1].text.k = "string"
        /\ \E i \in 1..Len(bgReq[1].text.str) :
              bgReq[1].text.str[i] \notin Whitespace

C5_Witness ==
    /\ bgReq # <<>>
    /\ bgMsg.payload.text.k = "object"
    /\ bgMsg.payload.text.f = {"title"}
    /\ Len(bgReq[1].text.str) = 11
    /\ bgResp = <<[ok |-> TRUE, message |-> "Page API data stored"]>>

\* C6 (as stated): a page_api_data message whose text is missing or falsy,
\* an API response, or whitespace only is answered ok:false with the matching
\* message and causes no request
C6_RejectsInvalid ==
    bgMsg.action = "page_api_data" =>
        /\ TextMissing(bgMsg) => Refused("Missing text field in payload")
        /\ TextApiResponse(bgMsg) => Refused("Cannot store API response data")
        /\ TextWhitespaceOnly(bgMsg) => Refused("No content to store")

\* C6 (amended): the same for a page_api_data message whose type is not
\* ACTION_RESPONSE
C6_RejectsInvalidUnlessActionResponse ==
    (bgMsg.action = "page_api_data" /\ bgMsg.type # "ACTION_RESPONSE") =>
        /\ TextMissing(bgMsg) => Refused("Missing text field in payload")
        /\ TextApiResponse(bgMsg) => Refused("Cannot store API response data")
        /\ TextWhitespaceOnly(bgMsg) => Refused("No content to store")

C6_Witness ==
    /\ bgMsg.action = "page_api_data"
    /\ bgMsg.type # "ACTION_RESPONSE"
    /\ TextApiResponse(bgMsg)
    /\ Refused("Cannot store API response data")

\* C7: getUserId never writes localStorage, returns no ID when none of the
\* three keys holds a non-empty value, and otherwise returns what
\* getOrCreateUserId returns in the same storage state
C7_GetUserIdReadsOnly ==
    ret.fn = "getUserId" =>
        /\ ls = ret.pre
        /\ NonEmptyAt(ret.pre) = {} => ret.val \in {NULL, ""}
        /\ NonEmptyAt(ret.pre) # {} =>
              \A fresh \in UUIDs :
                  ret.val = GetOrCreateUserId(ret.pre, fresh).uid

C7_Witness ==
    /\ ret.fn = "getUserId"
    /\ NonEmptyAt(ret.pre) = {2, 3}
    /\ ret.pre[KeyOrder[2]] # ret.pre[KeyOrder[3]]
    /\ ret.val = ret.pre[KeyOrder[2]]

\* C8: checkExtensionUserId always settles, with null when the timeout
\* settles it, so initializeUserId always completes
C8_AlwaysSettles ==
    /\ <>(pc = "done")
    /\ [](settledBy = "timeout" => extensionId = NULL)

C8_Witness ==
    /\ pc = "done"
    /\ ~extActive
    /\ settledBy = "timeout"
    /\ posts = 0

C10_HandshakeCompletes ==
    (extActive /\ settledBy # "none") =>
        /\ ExtRecognizes(DashboardRequest)
        /\ extensionId = ExtGetOrCreateUserId

\* C11: after getOrCreateUserId has returned u the primary key
\* ai_mem_user_id holds u, and the fallback keys are never written
C11_PrimaryKeyHoldsId ==
    /\ pc = "done" => ls[USER_ID_KEY] = userId
    /\ \A i \in 1..Len(FALLBACK_KEYS) : ls[FALLBACK_KEYS[i]] = ls0[FALLBACK_KEYS[i]]

C11_Witness ==
    /\ pc = "done"
    /\ NonEmptyAt(ls0) = {3}
    /\ ~Truthy(extensionId)
    /\ userId = ls0[KeyOrder[3]]
    /\ ls[USER_ID_KEY] = ls0[KeyOrder[3]]

\* the extension answered with an ID and the local ID was absent or different
ExtensionIdIsNew ==
    /\ extensionId \notin {NULL, UNDEF, ""}
    /\ localId \in {NULL, ""} \/ localId # extensionId

\* C12: syncWithExtension returns true exactly when it wrote ai_mem_user_id
\* (the extension answered with an ID and the local ID was absent or
\* different); otherwise it returns false and leaves localStorage unchanged
C12_TrueIffWritten ==
    pc = "synced" =>
        /\ synced <=> ExtensionIdIsNew
        /\ synced => ls = [ls0 EXCEPT ![USER_ID_KEY] = extensionId] /\ ls # ls0
        /\ ~synced => ls = ls0

C12_Witness ==
    /\ pc = "synced"
    /\ synced
    /\ localId \in {NULL, ""}
    /\ ls[USER_ID_KEY] = extensionId

\* C13: checkExtensionUserId resolves to a non-null value only when a
\* message of type USER_ID_RESPONSE carrying a userId was received; messages
\* of any other type never determine the resolved ID
C13_OnlyUserIdResponse ==
    (settledBy # "none" /\ extensionId # NULL) =>
        settledBy = "message" /\ settledType = "USER_ID_RESPONSE"

\* C14: the first of a qualifying message and the timeout fixes the result:
\* neither a later message nor a later timeout changes it, and after either
\* the message listener is no longer attached
C14_FirstEventDecides ==
    /\ [](settledBy # "none" => ~listening)
    /\ [][settledBy # "none" =>
            extensionId' = extensionId /\ settledBy' = settledBy]_vars

C14_Witness ==
    /\ settledBy = "timeout"
    /\ late
    /\ ~timer
    /\ ~listening
    /\ extensionId = NULL

\* C16 (as stated): sendResponse is called exactly once for every message
\* with action page_api_data, and never, with no request to the backend, for
\* ACTION_RESPONSE messages and messages with any other action
C16_ExactlyOneResponse ==
    /\ Len(bgResp) <= 1
    /\ (bgPc = "idle" /\ bgMsg.action = "page_api_data") => Len(bgResp) = 1
    /\ (bgMsg.type = "ACTION_RESPONSE" \/ bgMsg.action # "page_api_data") =>
          bgResp = <<>> /\ bgReq = <<>>

\* C16 (amended): exactly once for every page_api_data message whose type is
\* not ACTION_RESPONSE; never for the others
C16_ExactlyOneUnlessActionResponse ==
    /\ Len(bgResp) <= 1
    /\ (/\ bgPc = "idle"
        /\ bgMsg.action = "page_api_data"
        /\ bgMsg.type # "ACTION_RESPONSE") => Len(bgResp) = 1
    /\ (bgMsg.type = "ACTION_RESPONSE" \/ bgMsg.action # "page_api_data") =>
          bgResp = <<>> /\ bgReq = <<>>

C16_Witness ==
    /\ bgPc = "idle"
    /\ bgMsg.action = "page_api_data"
    /\ bgMsg.type # "ACTION_RESPONSE"
    /\ bgFetch = "throw"
    /\ bgResp = <<[ok |-> FALSE, message |-> "Error"]>>

\* C17: for a page_api_data message that passes validation the channel to
\* the sender is still open when sendResponse is called after the fetch, so
\* the sender receives the outcome of the store call
C17_OutcomeReachesSender ==
    /\ bgPc \in {"awaitFetch", "awaitText"} => bgChannel = "open"
    /\ (bgPc = "idle" /\ bgReq # <<>>) =>
          Len(bgResp) = 1 /\ bgDelivered = bgResp

\* the background worker answers ok:true only for an OK response of /store,
\* and ok:false once the fetch came back otherwise or was rejected
BgReportsFetch ==
    /\ \A i \in 1..Len(bgResp) : bgResp[i].ok => bgFetch = "ok"
    /\ (bgPc = "idle" /\ bgFetch \in {"status", "throw"})
           => (Len(bgResp) = 1 /\ ~bgResp[1].ok)

\* saveSingleContent and savePageAsNote return success:true only after an OK
\* response, and success:false after any other status or a rejected fetch
SaveReportsFetch ==
    (ssFn \in {"single", "note"} /\ ssRet.set)
        => /\ ssRet.success => (ssLast = "ok" /\ ssOkCount = 1)
           /\ ssLast \in {"status", "throw"} => ~ssRet.success

\* saveBulkContent has no more saved items than OK responses, and between
\* two items every other response or rejection is among the failed ones
BulkCountsFetches ==
    ssFn = "bulk"
        => /\ ssResults <= ssOkCount
           /\ ssPc \in {"idle", "fetch"} => ssErrors >= ssBadCount
           /\ ssRet.set => /\ ssRet.saved_count = ssResults
                           /\ ssRet.failed_count = ssErrors
                           /\ ssRet.success => ssOkCount > 0

\* C15: success is reported only after the backend answered with an OK
\* status: ok:true from the background worker, success:true from
\* saveSingleContent and savePageAsNote, and a saved item in saveBulkContent
\* all follow response.ok; any other status or a rejected fetch is reported
\* as a failure
C15_SuccessOnlyAfterOk ==
    /\ BgReportsFetch
    /\ SaveReportsFetch
    /\ BulkCountsFetches

\* saveBulkContent has returned after one item was answered OK and another
\* was not: one saved, one failed
C15_Witness ==
    /\ ssFn = "bulk"
    /\ ssPc = "idle"
    /\ ssRet = SaveRet(TRUE, 1, 1)
    /\ ssOkCount = 1
    /\ ssBadCount = 1

\* C18: the dashboard sends no request to /get_all, /api/stats, /api/search
\* or /api/search/nl while userId is empty: a request comes only after
\* initialization has set the user ID, it carries that non-empty ID, and a
\* search request carries a query that is not blank after trimming
C18_NoRequestWithoutUserId ==
    /\ userId = "" => dbReq = NoReq
    /\ dbReq # NoReq
           => /\ pc = "done"
              /\ dbReq.user_id = userId
              /\ Truthy(dbReq.user_id)
              /\ dbReq.endpoint \in SearchEndpoints => Trim(dbReq.query) # <<>>

\* a natural-language search was sent for a query with leading white space,
\* under the ID initialization created
C18_Witness ==
    /\ pc = "done"
    /\ userId \in UUIDs
    /\ dbReq = Request("/api/search/nl", userId, <<" ", "a">>)

====
